---- MODULE Spec2Model ----
(***************************************************************************)
(* Hardclone CLI (hcli.py): the prompt workflow of one invocation, the     *)
(* backup and restore command lines it builds, and the detection of the    *)
(* properties of a backup file.                                            *)
(*                                                                         *)
(* Strings the program inspects character by character (paths, sizes,      *)
(* passwords) are sequences of one-character strings; file contents are    *)
(* sequences of byte values.  A command line is the sequence of its        *)
(* stages, the text between two " | ".                                     *)
(***************************************************************************)
EXTENDS Integers, Sequences, FiniteSets, TLC

\* ------------------------------------------------------------------ bounds

\* invocations of the program that follow one another on the same disk
MaxRuns == 2
\* parts a split backup produces at most
MaxParts == 2
\* directory entries whose every listing order is tried
MaxShuffled == 4
\* files the disk has room for beyond those the first invocation finds
MaxRoom == 2

\* ------------------------------------------------------- string primitives

Digits == {"0", "1", "2", "3", "4", "5", "6", "7", "8", "9"}

\* code points of the characters that occur in the modelled strings
Ord ==
  ("*" :> 42) @@ ("." :> 46) @@ ("/" :> 47) @@ ("0" :> 48) @@ ("1" :> 49) @@
  ("2" :> 50) @@ ("4" :> 52) @@ ("5" :> 53) @@ ("8" :> 56) @@ ("9" :> 57) @@
  ("G" :> 71) @@ ("K" :> 75) @@ ("M" :> 77) @@
  ("a" :> 97) @@ ("b" :> 98) @@ ("c" :> 99) @@ ("d" :> 100) @@ ("e" :> 101) @@
  ("g" :> 103) @@ ("i" :> 105) @@ ("m" :> 109) @@ ("n" :> 110) @@ ("o" :> 111) @@
  ("p" :> 112) @@ ("q" :> 113) @@ ("r" :> 114) @@ ("s" :> 115) @@ ("t" :> 116) @@
  ("u" :> 117) @@ ("v" :> 118) @@ ("w" :> 119) @@ ("z" :> 122)

\* str.upper() on one character (the letters that occur in the modelled strings)
Upper(c) ==
  CASE c = "g" -> "G"
    [] c = "k" -> "K"
    [] c = "m" -> "M"
    [] OTHER -> c

\* str.isdigit() on one character
IsDigit(c) == c \in Digits

\* str.startswith
StartsWith(s, pre) ==
  /\ Len(pre) <= Len(s)
  /\ SubSeq(s, 1, Len(pre)) = pre

\* str.endswith
EndsWith(s, suf) ==
  /\ Len(suf) <= Len(s)
  /\ SubSeq(s, Len(s) - Len(suf) + 1, Len(s)) = suf

\* c in s
Contains(s, c) == \E i \in 1..Len(s) : s[i] = c

\* index of the last c in s, 0 when there is none
LastIndex(s, c) ==
  IF Contains(s, c) THEN CHOOSE i \in 1..Len(s) : s[i] = c /\ \A j \in (i+1)..Len(s) : s[j] # c
  ELSE 0

\* s.rsplit('.', 1)[0]
RSplitDot(s) ==
  IF Contains(s, ".") THEN SubSeq(s, 1, LastIndex(s, ".") - 1) ELSE s

\* os.path.dirname
DirName(p) ==
  LET i == LastIndex(p, "/") IN
  IF i = 0 THEN <<>>
  ELSE IF \A j \in 1..i : p[j] = "/" THEN SubSeq(p, 1, i)
  ELSE SubSeq(p, 1, CHOOSE k \in 1..i : p[k] # "/" /\ \A j \in (k+1)..i : p[j] = "/")

\* os.path.basename
BaseName(p) == SubSeq(p, LastIndex(p, "/") + 1, Len(p))

\* os.path.join(a, b) for a relative b
PathJoin(a, b) ==
  IF a = <<>> \/ EndsWith(a, <<"/">>) THEN a \o b ELSE a \o <<"/">> \o b

\* a < b for Python strings: lexicographic by code point
RECURSIVE StrLess(_, _)
StrLess(a, b) ==
  IF b = <<>> THEN FALSE
  ELSE IF a = <<>> THEN TRUE
  ELSE IF Ord[Head(a)] # Ord[Head(b)] THEN Ord[Head(a)] < Ord[Head(b)]
  ELSE StrLess(Tail(a), Tail(b))

\* the sequences that list the set S once each
RECURSIVE AllOrders(_)
AllOrders(S) ==
  IF S = {} THEN { <<>> }
  ELSE UNION { { <<x>> \o rest : rest \in AllOrders(S \ {x}) } : x \in S }

\* one of those orders, for a caller that uses only the length of the result
RECURSIVE AnyOrder(_)
AnyOrder(S) ==
  IF S = {} THEN <<>>
  ELSE LET x == CHOOSE y \in S : TRUE IN <<x>> \o AnyOrder(S \ {x})

\* sorted(list): insertion into an ascending list
RECURSIVE InsertSorted(_, _)
InsertSorted(x, s) ==
  IF s = <<>> THEN <<x>>
  ELSE IF StrLess(x, Head(s)) THEN <<x>> \o s
  ELSE <<Head(s)>> \o InsertSorted(x, Tail(s))

SortedMut(s) == s

\* the names of S in ascending order
RECURSIVE InsertSortedAll(_)
InsertSortedAll(S) ==
  IF S = {} THEN <<>>
  ELSE LET x == CHOOSE y \in S : TRUE IN InsertSorted(x, InsertSortedAll(S \ {x}))

RECURSIVE Sorted(_)
Sorted(s) == IF s = <<>> THEN <<>> ELSE InsertSorted(Head(s), Sorted(Tail(s)))

Reverse(s) == [i \in 1..Len(s) |-> s[Len(s) + 1 - i]]

\* the orders in which a directory listing can return the entries S: every
\* order for up to MaxShuffled entries, the ascending and the descending order
\* of the names and one more for a longer listing
Orders(S) ==
  IF Cardinality(S) <= MaxShuffled THEN AllOrders(S)
  ELSE LET up == InsertSortedAll(S) IN { up, Reverse(up), Tail(up) \o <<Head(up)>> }

\* ------------------------------------------------------------- the disk

DOT == <<".">>
GZ == <<".", "g", "z">>
ENC == <<".", "e", "n", "c">>
GZ_ENC == <<".", "g", "z", ".", "e", "n", "c">>
DEV == <<"/", "d", "e", "v", "/">>

\* b'\x1f\x8b'
GzipMagic == <<31, 139>>
\* b'Salted__'
SaltedMagic == <<83, 97, 108, 116, 101, 100, 95, 95>>

\* what gzip and openssl enc -salt put at the start of their output
Gzipped == GzipMagic \o <<8>>
Salted == SaltedMagic \o <<7>>

\* first bytes a partition can hold
RawContents == { <<0, 1>>, Gzipped }

\* first bytes of the later parts of a split stream
LaterPart == <<0, 1>>

\* a file nobody has recorded the origin of
NotMade == [made |-> FALSE, compress |-> FALSE, encrypt |-> FALSE, split |-> FALSE, part |-> 0]

File(content, readable) == [content |-> content, readable |-> readable, by |-> NotMade]

\* directories the first invocation can find: an empty one, and one that holds
\* five files without a known suffix, the three parts o.aa, o.ab, o.ac, an
\* older compressed image i.gz and a part i.gz.aa of an older split backup
DirEmpty == << >>

DirUsed ==
  (<<"/", "t", "/", "r">> :> File(Gzipped, TRUE)) @@
  (<<"/", "t", "/", "s">> :> File(Salted, TRUE)) @@
  (<<"/", "t", "/", "u">> :> File(<<31>>, TRUE)) @@
  (<<"/", "t", "/", "v">> :> File(<<0, 31, 139>>, TRUE)) @@
  (<<"/", "t", "/", "w">> :> File(Gzipped, FALSE)) @@
  (<<"/", "t", "/", "o", ".", "a", "a">> :> File(Gzipped, TRUE)) @@
  (<<"/", "t", "/", "o", ".", "a", "b">> :> File(<<0, 1>>, TRUE)) @@
  (<<"/", "t", "/", "o", ".", "a", "c">> :> File(<<0, 1>>, TRUE)) @@
  (<<"/", "t", "/", "i", ".", "g", "z">> :> File(Gzipped, TRUE)) @@
  (<<"/", "t", "/", "i", ".", "g", "z", ".", "a", "a">> :> File(Gzipped, TRUE))

InitialDirs == { DirEmpty, DirUsed }

\* what the user can type at the prompts
OutputPaths == { <<"/", "t", "/", "i">>, <<"/", "t", "/", "i", ".", "m">> }
MissingPath == <<"/", "t", "/", "n">>
Passwords == { <<>>, <<"p">> }
SplitSizes ==
  { <<>>, <<"G", "1", "0", "0">>, <<"1", "G">>, <<"5", "0", "0", "M">>, <<"2", "0", "4", "8", "K">>,
    <<"1", "2">>, <<"1", "x">> }

\* the device nodes that exist under /dev
DevNodes == { DEV \o <<"s", "d", "a">>, DEV \o <<"s", "d", "a", "1">> }

\* ---------------------------------------------------------- command lines

\* one stage of a shell pipeline: the program, the files it reads, the file
\* (for split: the prefix) it writes, and the options that matter
Stage(exe, ins, out, size, pass, decrypt) ==
  [exe |-> exe, ins |-> ins, out |-> out, size |-> size, pass |-> pass, decrypt |-> decrypt]

\* dd if=<partition> bs=1M [of=<out>]
DdRead(partition, out) == Stage("dd", <<partition>>, out, <<>>, <<>>, FALSE)
\* gzip [> <out>]
Gzip(out) == Stage("gzip", <<>>, out, <<>>, <<>>, FALSE)
\* openssl enc -aes-256-cbc -salt -pbkdf2 -pass pass:<pass> [-out <out>]
OpensslEnc(pass, out) == Stage("openssl", <<>>, out, <<>>, pass, FALSE)
\* split -b <size> - <prefix>
Split(size, prefix) == Stage("split", <<>>, prefix, size, <<>>, FALSE)
\* cat <files>
Cat(files) == Stage("cat", files, <<>>, <<>>, <<>>, FALSE)
\* openssl enc -aes-256-cbc -d -salt -pbkdf2 -pass pass:<pass>
OpensslDec(pass) == Stage("openssl", <<>>, <<>>, <<>>, pass, TRUE)
\* gunzip
Gunzip == Stage("gunzip", <<>>, <<>>, <<>>, <<>>, FALSE)
\* dd of=<partition> bs=1M
DdWrite(partition) == Stage("dd", <<>>, partition, <<>>, <<>>, FALSE)

\* create_image with gzip and openssl exchanged
CreateImageCmdSwapped(partition, out_file, compress, encrypt, split, password, size) ==
  IF compress /\ encrypt THEN
    IF split
      THEN <<DdRead(partition, <<>>), OpensslEnc(password, <<>>), Gzip(<<>>), Split(size, out_file \o DOT)>>
      ELSE <<DdRead(partition, <<>>), OpensslEnc(password, <<>>), Gzip(out_file \o GZ_ENC)>>
  ELSE IF compress THEN
    IF split
      THEN <<DdRead(partition, <<>>), Gzip(<<>>), Split(size, out_file \o GZ \o DOT)>>
      ELSE <<DdRead(partition, <<>>), Gzip(out_file \o GZ)>>
  ELSE IF encrypt THEN
    IF split
      THEN <<DdRead(partition, <<>>), OpensslEnc(password, <<>>), Split(size, out_file \o ENC \o DOT)>>
      ELSE <<DdRead(partition, <<>>), OpensslEnc(password, out_file \o ENC)>>
  ELSE IF split THEN
    <<DdRead(partition, <<>>), Split(size, out_file \o DOT)>>
  ELSE
    <<DdRead(partition, out_file)>>

\* create_image: full_cmd from the backup flags
CreateImageCmd(partition, out_file, compress, encrypt, split, password, size) ==
  IF compress /\ encrypt THEN
    IF split
      THEN <<DdRead(partition, <<>>), Gzip(<<>>), OpensslEnc(password, <<>>), Split(size, out_file \o DOT)>>
      ELSE <<DdRead(partition, <<>>), Gzip(<<>>), OpensslEnc(password, out_file \o GZ_ENC)>>
  ELSE IF compress THEN
    IF split
      THEN <<DdRead(partition, <<>>), Gzip(<<>>), Split(size, out_file \o GZ \o DOT)>>
      ELSE <<DdRead(partition, <<>>), Gzip(out_file \o GZ)>>
  ELSE IF encrypt THEN
    IF split
      THEN <<DdRead(partition, <<>>), OpensslEnc(password, <<>>), Split(size, out_file \o ENC \o DOT)>>
      ELSE <<DdRead(partition, <<>>), OpensslEnc(password, out_file \o ENC)>>
  ELSE IF split THEN
    <<DdRead(partition, <<>>), Split(size, out_file \o DOT)>>
  ELSE
    <<DdRead(partition, out_file)>>

\* restore_image with the two decoding stages exchanged
RestoreImageCmdSwapped(input_cmd, is_encrypted, is_compressed, password, partition) ==
  <<input_cmd>>
    \o (IF is_compressed THEN <<Gunzip>> ELSE <<>>)
    \o (IF is_encrypted THEN <<OpensslDec(password)>> ELSE <<>>)
    \o <<DdWrite(partition)>>

\* restore_image: full_cmd from input_cmd and pipeline_parts
RestoreImageCmd(input_cmd, is_encrypted, is_compressed, password, partition) ==
  <<input_cmd>>
    \o (IF is_encrypted THEN <<OpensslDec(password)>> ELSE <<>>)
    \o (IF is_compressed THEN <<Gunzip>> ELSE <<>>)
    \o <<DdWrite(partition)>>

\* ------------------------------------------------------------------- glob

\* fnmatch of a path against <literal>* within one directory
GlobMatch(path, pattern) ==
  LET literal == SubSeq(pattern, 1, Len(pattern) - 1) IN
  /\ pattern # <<>>
  /\ pattern[Len(pattern)] = "*"
  /\ StartsWith(path, literal)
  /\ ~Contains(SubSeq(path, Len(literal) + 1, Len(path)), "/")

\* the paths glob.glob(pattern) finds; glob returns them in directory order
GlobSet(disk, pattern) == { f \in DOMAIN disk : GlobMatch(f, pattern) }

STAR == <<".", "*">>

\* detect_file_properties: split_patterns, joined with base_dir
DetectPatterns(file_path) ==
  LET base_dir == DirName(file_path)
      base_name == BaseName(file_path)
  IN << PathJoin(base_dir, base_name \o STAR),
        PathJoin(base_dir, IF Contains(base_name, ".") THEN RSplitDot(base_name) \o STAR
                           ELSE base_name \o STAR) >>

\* restore_image: patterns
RestorePatterns(restore_file) ==
  << restore_file \o STAR,
     IF Contains(BaseName(restore_file), ".") THEN RSplitDot(restore_file) \o STAR
     ELSE restore_file \o STAR >>

\* ------------------------------------------------------------------ state

VARIABLES
  run,               \* number of this invocation
  pc,                \* the function the workflow is about to call, or "exit"
  exit_code,         \* the process's exit status once pc = "exit"
  log,               \* the dialog boxes shown so far, with the user's answers
  executed,          \* pipelines handed to subprocess.run in this invocation
  full_cmd,          \* the command line handed to subprocess.run, <<>> before
  returncode,        \* how that command ended: "none" before, "zero", "nonzero"
  fs,                \* the files on disk: path -> content, readable, origin
  room,              \* files the disk still has room for
  devices,           \* select_device / select_restore_device: devices
  partitions,        \* select_partition / select_restore_partition: partitions
  DEVICE, PARTITION, OUTPUT_PATH, ENCRYPT, ENCRYPT_PASSWORD, COMPRESS, SPLIT, SPLIT_SIZE,
  RESTORE_FILE, RESTORE_DEVICE, RESTORE_PARTITION, IS_ENCRYPTED, IS_COMPRESSED, IS_SPLIT,
  RESTORE_PASSWORD,
  content_read,      \* detect_file_properties opened the file
  split_files        \* restore_image: split_files

backup_globals ==
  <<DEVICE, PARTITION, OUTPUT_PATH, ENCRYPT, ENCRYPT_PASSWORD, COMPRESS, SPLIT, SPLIT_SIZE>>

restore_globals ==
  <<RESTORE_FILE, RESTORE_DEVICE, RESTORE_PARTITION, IS_ENCRYPTED, IS_COMPRESSED, IS_SPLIT,
    RESTORE_PASSWORD>>

vars ==
  <<run, pc, exit_code, log, executed, full_cmd, returncode, fs, room, devices, partitions,
    backup_globals, restore_globals, content_read, split_files>>

\* ------------------------------------------------------------ dialog boxes

DIALOG_OK == "ok"
DIALOG_CANCEL == "cancel"

Box(box, msg, args, code, value) ==
  [box |-> box, msg |-> msg, args |-> args, code |-> code, value |-> value]

MsgBox(msg, args) == Box("msgbox", msg, args, DIALOG_OK, <<>>)
InfoBox(msg) == Box("infobox", msg, <<>>, DIALOG_OK, <<>>)

\* what the user can answer: OK with one of the values, or Cancel / ESC
Answers(values) ==
  { [code |-> DIALOG_OK, value |-> v] : v \in values }
    \cup { [code |-> DIALOG_CANCEL, value |-> <<>>] }

YesNoAnswers == { DIALOG_OK, DIALOG_CANCEL }

Range(s) == { s[i] : i \in DOMAIN s }

YesNo(flag) == IF flag THEN <<"Y", "E", "S">> ELSE <<"N", "O">>

\* sys.exit(code)
SysExit(code) == pc' = "exit" /\ exit_code' = code

\* return to the caller, which calls next
Return(next) == pc' = next /\ exit_code' = exit_code

\* ------------------------------------------------------------ collaborators

\* list_devices(): what lsblk and /proc/partitions report
ListDevices == { <<>>, << <<"s", "d", "a">> >> }

\* list_partitions(device): a partition whose node exists and a stale one
ListPartitions(device) ==
  { <<>>, << <<"s", "d", "a", "1">>, <<"s", "d", "a", "9">> >> }

\* "/dev/" + tag if not tag.startswith("/dev/") else tag
DevPath(tag) == IF StartsWith(tag, DEV) THEN tag ELSE DEV \o tag

\* os.path.exists
Exists(disk, path) == path \in DevNodes \/ path \in DOMAIN disk

\* ------------------------------------------------------------------- Init

Init ==
  /\ run = 1
  /\ pc = "main"
  /\ exit_code = 0
  /\ log = <<>>
  /\ executed = 0
  /\ full_cmd = <<>>
  /\ returncode = "none"
  /\ fs \in InitialDirs
  /\ room = MaxRoom
  /\ devices = <<>>
  /\ partitions = <<>>
  /\ DEVICE = <<>>
  /\ PARTITION = <<>>
  /\ OUTPUT_PATH = <<>>
  /\ ENCRYPT = FALSE
  /\ ENCRYPT_PASSWORD = <<>>
  /\ COMPRESS = FALSE
  /\ SPLIT = FALSE
  /\ SPLIT_SIZE = <<>>
  /\ RESTORE_FILE = <<>>
  /\ RESTORE_DEVICE = <<>>
  /\ RESTORE_PARTITION = <<>>
  /\ IS_ENCRYPTED = FALSE
  /\ IS_COMPRESSED = FALSE
  /\ IS_SPLIT = FALSE
  /\ RESTORE_PASSWORD = <<>>
  /\ content_read = FALSE
  /\ split_files = <<>>

\* ------------------------------------------------------------------- main

\* main: the welcome box
main ==
  /\ pc = "main"
  /\ log' = Append(log, MsgBox(<<"Welcome to Hardclone CLI - Partition Backup Creator/Restorer!">>, <<>>))
  /\ Return("select_operation")
  /\ UNCHANGED <<run, executed, full_cmd, returncode, fs, room, devices, partitions, backup_globals,
                 restore_globals, content_read, split_files>>

\* select_operation, and main's dispatch on its result
select_operation ==
  /\ pc = "select_operation"
  /\ \E r \in Answers({ <<"b", "a", "c", "k", "u", "p">>, <<"r", "e", "s", "t", "o", "r", "e">> }) :
       /\ log' = Append(log, Box("menu", <<"Select operation:">>, <<>>, r.code, r.value))
       /\ IF r.code # DIALOG_OK THEN SysExit(0)
          ELSE IF r.value = <<"b", "a", "c", "k", "u", "p">> THEN Return("select_device")
          ELSE Return("select_restore_file")
  /\ UNCHANGED <<run, executed, full_cmd, returncode, fs, room, devices, partitions, backup_globals,
                 restore_globals, content_read, split_files>>

\* ------------------------------------------------------------------ backup

select_device ==
  /\ pc = "select_device"
  /\ \E devs \in ListDevices :
       /\ devices' = devs
       /\ IF devs = <<>>
            THEN /\ log' = Append(log, MsgBox(<<"No storage devices found!">>, <<>>))
                 /\ SysExit(1)
                 /\ DEVICE' = DEVICE
            ELSE \E r \in Answers(Range(devs)) :
                   /\ log' = Append(log, Box("menu", <<"Select storage device:">>, <<>>, r.code, r.value))
                   /\ IF r.code # DIALOG_OK
                        THEN SysExit(0) /\ DEVICE' = DEVICE
                        ELSE DEVICE' = DevPath(r.value) /\ Return("select_partition")
  /\ UNCHANGED <<run, executed, full_cmd, returncode, fs, room, partitions, PARTITION, OUTPUT_PATH, ENCRYPT,
                 ENCRYPT_PASSWORD, COMPRESS, SPLIT, SPLIT_SIZE, restore_globals,
                 content_read, split_files>>

select_partition ==
  /\ pc = "select_partition"
  /\ \E parts \in ListPartitions(DEVICE) :
       /\ partitions' = parts
       /\ IF parts = <<>>
            THEN /\ log' = Append(log, MsgBox(<<"No partitions found on device !">>, <<DEVICE>>))
                 /\ SysExit(1)
                 /\ PARTITION' = PARTITION
            ELSE \E r \in Answers(Range(parts)) :
                   IF r.code # DIALOG_OK
                     THEN /\ log' = Append(log, Box("menu", <<"Select partition on :">>, <<DEVICE>>, r.code, r.value))
                          /\ SysExit(0)
                          /\ PARTITION' = PARTITION
                     ELSE /\ PARTITION' = DevPath(r.value)
                          /\ IF ~Exists(fs, DevPath(r.value))
                               THEN /\ log' = log \o
                                         << Box("menu", <<"Select partition on :">>, <<DEVICE>>, r.code, r.value),
                                            MsgBox(<<"Error: Partition  does not exist!">>, <<DevPath(r.value)>>) >>
                                    /\ SysExit(1)
                               ELSE /\ log' = Append(log, Box("menu", <<"Select partition on :">>, <<DEVICE>>, r.code, r.value))
                                    /\ Return("select_output_path")
  /\ UNCHANGED <<run, executed, full_cmd, returncode, fs, room, devices, DEVICE, OUTPUT_PATH, ENCRYPT,
                 ENCRYPT_PASSWORD, COMPRESS, SPLIT, SPLIT_SIZE, restore_globals,
                 content_read, split_files>>

\* the free-space check of select_output_path: partition_size > available_space
\* when the disk has no room for one more file
ShortOfSpace(free) == free < 1

select_output_path ==
  /\ pc = "select_output_path"
  /\ \E r \in Answers(OutputPaths) :
       LET box == Box("inputbox", <<"Enter destination path for partition image:">>, <<>>, r.code, r.value) IN
       IF r.code # DIALOG_OK
         THEN /\ log' = Append(log, box)
              /\ SysExit(0)
              /\ OUTPUT_PATH' = OUTPUT_PATH
         ELSE /\ OUTPUT_PATH' = r.value
              /\ \E raised \in BOOLEAN :
                   \* disk_usage or blockdev raises and nothing catches it
                   IF raised
                     THEN log' = Append(log, box) /\ SysExit(1)
                     ELSE IF ShortOfSpace(room)
                     THEN /\ log' = log \o << box, MsgBox(<<"Warning: Partition size () may exceed available space ()!">>, <<>>) >>
                          /\ Return("select_encryption")
                     ELSE log' = Append(log, box) /\ Return("select_encryption")
  /\ UNCHANGED <<run, executed, full_cmd, returncode, fs, room, devices, partitions, DEVICE, PARTITION, ENCRYPT,
                 ENCRYPT_PASSWORD, COMPRESS, SPLIT, SPLIT_SIZE, restore_globals,
                 content_read, split_files>>

\* a confirmation that is turned down only when the box was cancelled
RejectConfirmLax(code, pw1, pw2) == code # DIALOG_OK

\* select_encryption: code != d.DIALOG_OK or pw1 != pw2
RejectConfirm(code, pw1, pw2) == code # DIALOG_OK \/ pw1 # pw2

select_encryption ==
  /\ pc = "select_encryption"
  /\ \E yn \in YesNoAnswers :
       LET ask == Box("yesno", <<"Encrypt the image file?">>, <<>>, yn, <<>>) IN
       IF yn # DIALOG_OK
         THEN /\ log' = Append(log, ask)
              /\ Return("select_compression")
              /\ UNCHANGED <<ENCRYPT, ENCRYPT_PASSWORD>>
         ELSE /\ ENCRYPT' = TRUE
              /\ \E r1 \in Answers(Passwords) :
                   LET box1 == Box("passwordbox", <<"Enter encryption password:">>, <<>>, r1.code, r1.value) IN
                   IF r1.code # DIALOG_OK \/ r1.value = <<>>
                     THEN /\ log' = log \o <<ask, box1>>
                          /\ SysExit(0)
                          /\ ENCRYPT_PASSWORD' = ENCRYPT_PASSWORD
                     ELSE \E r2 \in Answers(Passwords) :
                            LET box2 == Box("passwordbox", <<"Confirm encryption password:">>, <<>>, r2.code, r2.value) IN
                            IF RejectConfirm(r2.code, r1.value, r2.value)
                              THEN /\ log' = log \o <<ask, box1, box2, MsgBox(<<"Passwords do not match!">>, <<>>)>>
                                   /\ SysExit(1)
                                   /\ ENCRYPT_PASSWORD' = ENCRYPT_PASSWORD
                              ELSE /\ log' = log \o <<ask, box1, box2>>
                                   /\ ENCRYPT_PASSWORD' = r1.value
                                   /\ Return("select_compression")
  /\ UNCHANGED <<run, executed, full_cmd, returncode, fs, room, devices, partitions, DEVICE, PARTITION,
                 OUTPUT_PATH, COMPRESS, SPLIT, SPLIT_SIZE, restore_globals,
                 content_read, split_files>>

select_compression ==
  /\ pc = "select_compression"
  /\ \E yn \in YesNoAnswers :
       /\ log' = Append(log, Box("yesno", <<"Compress the image file?">>, <<>>, yn, <<>>))
       /\ COMPRESS' = IF yn = DIALOG_OK THEN TRUE ELSE COMPRESS
  /\ Return("select_split")
  /\ UNCHANGED <<run, executed, full_cmd, returncode, fs, room, devices, partitions, DEVICE, PARTITION,
                 OUTPUT_PATH, ENCRYPT, ENCRYPT_PASSWORD, SPLIT, SPLIT_SIZE, restore_globals,
                 content_read, split_files>>

\* str.upper()
UpperStr(s) == [i \in DOMAIN s |-> Upper(s[i])]

\* a size check that only asks for a non-empty string
InvalidSizeLax(size) == size = <<>>

\* select_split: not size or not size.upper()[0].isdigit()
InvalidSize(size) == size = <<>> \/ ~IsDigit(UpperStr(size)[1])

select_split ==
  /\ pc = "select_split"
  /\ \E yn \in YesNoAnswers :
       LET ask == Box("yesno", <<"Split file into smaller parts?">>, <<>>, yn, <<>>) IN
       IF yn # DIALOG_OK
         THEN /\ log' = Append(log, ask)
              /\ Return("show_backup_summary")
              /\ UNCHANGED <<SPLIT, SPLIT_SIZE>>
         ELSE /\ SPLIT' = TRUE
              /\ \E r \in Answers(SplitSizes) :
                   LET box == Box("inputbox", <<"Enter maximum size for each part (e.g. 1G, 500M, 2048K):">>, <<>>, r.code, r.value) IN
                   IF r.code # DIALOG_OK
                     THEN /\ log' = log \o <<ask, box>>
                          /\ SysExit(0)
                          /\ SPLIT_SIZE' = SPLIT_SIZE
                     ELSE IF InvalidSize(r.value)
                     THEN /\ log' = log \o <<ask, box, MsgBox(<<"Invalid size format!">>, <<>>)>>
                          /\ SysExit(1)
                          /\ SPLIT_SIZE' = SPLIT_SIZE
                     ELSE /\ log' = log \o <<ask, box>>
                          /\ SPLIT_SIZE' = r.value
                          /\ Return("show_backup_summary")
  /\ UNCHANGED <<run, executed, full_cmd, returncode, fs, room, devices, partitions, DEVICE, PARTITION,
                 OUTPUT_PATH, ENCRYPT, ENCRYPT_PASSWORD, COMPRESS, restore_globals,
                 content_read, split_files>>

\* show_backup_summary, and backup_workflow's branch on its result
\* a summary that lets the operation go on whatever the user answered
SummaryAcceptedAny(code) == TRUE

\* show_backup_summary, show_restore_summary: return code == d.DIALOG_OK
SummaryAccepted(code) == code = DIALOG_OK

show_backup_summary ==
  /\ pc = "show_backup_summary"
  /\ \E yn \in YesNoAnswers :
       LET summary == Box("yesno", <<"BACKUP OPERATION SUMMARY:", "Continue with backup operation?">>,
                          <<DEVICE, PARTITION, OUTPUT_PATH, YesNo(ENCRYPT), YesNo(COMPRESS),
                            IF SPLIT THEN <<"Y", "E", "S", " ", "(">> \o SPLIT_SIZE \o <<")">> ELSE <<"N", "O">> >>,
                          yn, <<>>) IN
       IF SummaryAccepted(yn)
         THEN log' = Append(log, summary) /\ Return("create_image")
         ELSE /\ log' = log \o <<summary, MsgBox(<<"Backup operation cancelled by user.">>, <<>>)>>
              /\ SysExit(0)
  /\ UNCHANGED <<run, executed, full_cmd, returncode, fs, room, devices, partitions, backup_globals,
                 restore_globals, content_read, split_files>>

\* the suffixes split gives its parts: aa, ab, ac, ...
SplitSuffix(k) == <<"a", <<"a", "b", "c", "d", "e">>[k]>>

\* the first bytes of the stream a pipeline's last stage receives
RECURSIVE StreamHead(_, _)
StreamHead(cmd, raw) ==
  IF cmd = <<>> THEN raw
  ELSE LET last == cmd[Len(cmd)]
           before == StreamHead(SubSeq(cmd, 1, Len(cmd) - 1), raw)
       IN IF last.exe = "gzip" THEN Gzipped
          ELSE IF last.exe = "openssl" /\ ~last.decrypt THEN Salted
          ELSE before

\* the files a backup command writes when split makes n parts
Written(cmd, n) ==
  LET last == cmd[Len(cmd)] IN
  IF last.exe = "split" THEN { last.out \o SplitSuffix(k) : k \in 1..n } ELSE { last.out }

\* the disk after the shell has run a backup command to its end: raw is what
\* the partition starts with, n the number of parts a split makes
RunBackup(disk, cmd, flags, raw, n) ==
  LET last == cmd[Len(cmd)]
      head == StreamHead(cmd, raw)
      part(f) == IF last.exe = "split" THEN CHOOSE k \in 1..n : f = last.out \o SplitSuffix(k) ELSE 0
  IN [f \in Written(cmd, n) \cup DOMAIN disk |->
        IF f \in Written(cmd, n)
          THEN [content |-> IF part(f) <= 1 THEN head ELSE LaterPart,
                readable |-> TRUE,
                by |-> [made |-> TRUE, compress |-> flags[1], encrypt |-> flags[2],
                        split |-> flags[3], part |-> part(f)]]
          ELSE disk[f]]

\* the disk after a backup command that failed: as before, or with an output
\* file that was opened and left empty
FailedBackup(disk, cmd, free) ==
  LET last == cmd[Len(cmd)] IN
  { disk } \cup
    IF last.exe = "split" \/ (last.out \notin DOMAIN disk /\ free < 1) THEN {}
    ELSE { [f \in {last.out} \cup DOMAIN disk |->
              IF f = last.out THEN File(<<>>, TRUE) ELSE disk[f]] }

\* split -b SIZE takes a number of bytes with at most one unit letter after it
SplitAccepts(size) ==
  \E k \in 1..Len(size) :
    /\ \A i \in 1..k : IsDigit(size[i])
    /\ Len(size) <= k + 1
    /\ \A i \in (k + 1)..Len(size) : size[i] \in {"K", "M", "G"}

create_image ==
  /\ pc = "create_image"
  /\ LET cmd == CreateImageCmd(PARTITION, OUTPUT_PATH, COMPRESS, ENCRYPT, SPLIT,
                               ENCRYPT_PASSWORD, SPLIT_SIZE)
         info == InfoBox(<<"Starting partition image creation...", "This may take a long time.">>)
     IN
     /\ full_cmd' = cmd
     /\ executed' = executed + 1
     /\ \E succeeded \in BOOLEAN :
          /\ returncode' = IF succeeded THEN "zero" ELSE "nonzero"
          /\ IF succeeded
               THEN /\ \E raw \in RawContents, n \in 1..MaxParts :
                         /\ (cmd[Len(cmd)].exe # "split" => n = 1)
                         /\ (cmd[Len(cmd)].exe = "split" => SplitAccepts(cmd[Len(cmd)].size))
                         /\ Cardinality(Written(cmd, n) \ DOMAIN fs) <= room
                         /\ fs' = RunBackup(fs, cmd, <<COMPRESS, ENCRYPT, SPLIT>>, raw, n)
                    /\ log' = log \o
                         << info,
                            MsgBox(<<"Partition image created successfully!", "Location: ">>
                                     \o (IF SPLIT THEN <<"File was split into parts of size ">> ELSE <<>>)
                                     \o (IF COMPRESS THEN <<"File was compressed (gzip)">> ELSE <<>>)
                                     \o (IF ENCRYPT THEN <<"File was encrypted (AES-256-CBC)">> ELSE <<>>),
                                   <<OUTPUT_PATH>> \o (IF SPLIT THEN <<SPLIT_SIZE>> ELSE <<>>)) >>
                    /\ SysExit(0)
               ELSE /\ fs' \in FailedBackup(fs, cmd, room)
                    /\ log' = log \o <<info, MsgBox(<<"ERROR: Failed to create partition image!">>, <<>>)>>
                    /\ SysExit(1)
     /\ room' = room - Cardinality(DOMAIN fs' \ DOMAIN fs)
  /\ UNCHANGED <<run, devices, partitions, backup_globals, restore_globals,
                 content_read, split_files>>

\* ----------------------------------------------------------------- restore

select_restore_file ==
  /\ pc = "select_restore_file"
  /\ \E r \in Answers(DOMAIN fs \cup {MissingPath}) :
       LET box == Box("inputbox", <<"Enter path to backup image file:">>, <<>>, r.code, r.value) IN
       IF r.code # DIALOG_OK
         THEN /\ log' = Append(log, box)
              /\ SysExit(0)
              /\ RESTORE_FILE' = RESTORE_FILE
         ELSE /\ RESTORE_FILE' = r.value
              /\ IF ~Exists(fs, r.value)
                   THEN /\ log' = log \o <<box, MsgBox(<<"Error: File  does not exist!">>, <<r.value>>)>>
                        /\ SysExit(1)
                   ELSE /\ log' = Append(log, box)
                        /\ Return("detect_file_properties")
  /\ UNCHANGED <<run, executed, full_cmd, returncode, fs, room, devices, partitions, backup_globals,
                 RESTORE_DEVICE, RESTORE_PARTITION, IS_ENCRYPTED, IS_COMPRESSED, IS_SPLIT,
                 RESTORE_PASSWORD, content_read, split_files>>

\* detect_file_properties: split_files, from what glob returned for the two
\* patterns; the function uses its length alone
DetectSplitFiles(matches1, matches2) ==
  (IF Len(matches1) > 1 THEN matches1 ELSE <<>>)
    \o (IF Len(matches2) > 1 THEN matches2 ELSE <<>>)

\* a detection that looks for '.enc' only
SuffixEncryptedNarrow(file_path) == EndsWith(file_path, ENC) /\ ~EndsWith(file_path, GZ_ENC)

\* file_path.endswith('.gz') or file_path.endswith('.gz.enc')
SuffixCompressed(file_path) == EndsWith(file_path, GZ) \/ EndsWith(file_path, GZ_ENC)

\* file_path.endswith('.enc') or file_path.endswith('.gz.enc')
SuffixEncrypted(file_path) == EndsWith(file_path, ENC) \/ EndsWith(file_path, GZ_ENC)

\* bytes detect_file_properties reads from the start of the file
HeaderLen == 16

\* f.read(16)
Header(file) ==
  SubSeq(file.content, 1, IF Len(file.content) < HeaderLen THEN Len(file.content) ELSE HeaderLen)

\* a content check that asks for the encryption magic first
MagicMixed(header) ==
  [compressed |-> StartsWith(header, GzipMagic),
   encrypted |-> StartsWith(header, GzipMagic) \/ StartsWith(header, SaltedMagic)]

\* the if / elif on header.startswith
Magic(header) ==
  [compressed |-> StartsWith(header, GzipMagic),
   encrypted |-> ~StartsWith(header, GzipMagic) /\ StartsWith(header, SaltedMagic)]

detect_file_properties ==
  /\ pc = "detect_file_properties"
  /\ LET patterns == DetectPatterns(RESTORE_FILE)
         by_suffix == SuffixCompressed(RESTORE_FILE) \/ SuffixEncrypted(RESTORE_FILE)
         file == fs[RESTORE_FILE]
     IN
     /\ IS_SPLIT' = (Len(DetectSplitFiles(AnyOrder(GlobSet(fs, patterns[1])),
                                          AnyOrder(GlobSet(fs, patterns[2])))) > 1)
     /\ content_read' = ~by_suffix
     /\ IF by_suffix
          THEN /\ IS_COMPRESSED' = SuffixCompressed(RESTORE_FILE)
               /\ IS_ENCRYPTED' = SuffixEncrypted(RESTORE_FILE)
          ELSE IF file.readable
          THEN /\ IS_COMPRESSED' = Magic(Header(file)).compressed
               /\ IS_ENCRYPTED' = Magic(Header(file)).encrypted
          ELSE /\ IS_COMPRESSED' = FALSE
               /\ IS_ENCRYPTED' = FALSE
  /\ Return("ask_restore_password")
  /\ UNCHANGED <<run, log, executed, full_cmd, returncode, fs, room, devices, partitions, backup_globals,
                 RESTORE_FILE, RESTORE_DEVICE, RESTORE_PARTITION, RESTORE_PASSWORD, split_files>>

ask_restore_password ==
  /\ pc = "ask_restore_password"
  /\ IF IS_ENCRYPTED
       THEN \E r \in Answers(Passwords) :
              /\ log' = Append(log, Box("passwordbox", <<"Enter decryption password:">>, <<>>, r.code, r.value))
              /\ IF r.code # DIALOG_OK
                   THEN SysExit(0) /\ RESTORE_PASSWORD' = RESTORE_PASSWORD
                   ELSE RESTORE_PASSWORD' = r.value /\ Return("select_restore_device")
       ELSE /\ Return("select_restore_device")
            /\ UNCHANGED <<log, RESTORE_PASSWORD>>
  /\ UNCHANGED <<run, executed, full_cmd, returncode, fs, room, devices, partitions, backup_globals,
                 RESTORE_FILE, RESTORE_DEVICE, RESTORE_PARTITION, IS_ENCRYPTED, IS_COMPRESSED,
                 IS_SPLIT, content_read, split_files>>

select_restore_device ==
  /\ pc = "select_restore_device"
  /\ \E devs \in ListDevices :
       /\ devices' = devs
       /\ IF devs = <<>>
            THEN /\ log' = Append(log, MsgBox(<<"No storage devices found!">>, <<>>))
                 /\ SysExit(1)
                 /\ RESTORE_DEVICE' = RESTORE_DEVICE
            ELSE \E r \in Answers(Range(devs)) :
                   /\ log' = Append(log, Box("menu", <<"Select destination device for restore:">>, <<>>, r.code, r.value))
                   /\ IF r.code # DIALOG_OK
                        THEN SysExit(0) /\ RESTORE_DEVICE' = RESTORE_DEVICE
                        ELSE RESTORE_DEVICE' = DevPath(r.value) /\ Return("select_restore_partition")
  /\ UNCHANGED <<run, executed, full_cmd, returncode, fs, room, partitions, backup_globals, RESTORE_FILE,
                 RESTORE_PARTITION, IS_ENCRYPTED, IS_COMPRESSED, IS_SPLIT, RESTORE_PASSWORD,
                 content_read, split_files>>

select_restore_partition ==
  /\ pc = "select_restore_partition"
  /\ \E parts \in ListPartitions(RESTORE_DEVICE) :
       /\ partitions' = parts
       /\ IF parts = <<>>
            THEN /\ log' = Append(log, MsgBox(<<"No partitions found on device !">>, <<RESTORE_DEVICE>>))
                 /\ SysExit(1)
                 /\ RESTORE_PARTITION' = RESTORE_PARTITION
            ELSE \E r \in Answers(Range(parts)) :
                   LET menu == Box("menu", <<"Select destination partition on :">>, <<RESTORE_DEVICE>>, r.code, r.value) IN
                   IF r.code # DIALOG_OK
                     THEN /\ log' = Append(log, menu)
                          /\ SysExit(0)
                          /\ RESTORE_PARTITION' = RESTORE_PARTITION
                     ELSE /\ RESTORE_PARTITION' = DevPath(r.value)
                          /\ IF ~Exists(fs, DevPath(r.value))
                               THEN /\ log' = log \o <<menu, MsgBox(<<"Error: Partition  does not exist!">>, <<DevPath(r.value)>>)>>
                                    /\ SysExit(1)
                               ELSE /\ log' = Append(log, menu)
                                    /\ Return("show_restore_summary")
  /\ UNCHANGED <<run, executed, full_cmd, returncode, fs, room, devices, backup_globals, RESTORE_FILE,
                 RESTORE_DEVICE, IS_ENCRYPTED, IS_COMPRESSED, IS_SPLIT, RESTORE_PASSWORD,
                 content_read, split_files>>

\* show_restore_summary, and restore_workflow's branch on its result
show_restore_summary ==
  /\ pc = "show_restore_summary"
  /\ \E yn \in YesNoAnswers :
       LET summary == Box("yesno", <<"RESTORE OPERATION SUMMARY:", "WARNING: This will OVERWRITE all data on !",
                                     "Are you sure you want to continue?">>,
                          <<RESTORE_FILE, RESTORE_DEVICE, RESTORE_PARTITION, YesNo(IS_ENCRYPTED),
                            YesNo(IS_COMPRESSED), YesNo(IS_SPLIT), RESTORE_PARTITION>>,
                          yn, <<>>) IN
       IF SummaryAccepted(yn)
         THEN log' = Append(log, summary) /\ Return("restore_image")
         ELSE /\ log' = log \o <<summary, MsgBox(<<"Restore operation cancelled by user.">>, <<>>)>>
              /\ SysExit(0)
  /\ UNCHANGED <<run, executed, full_cmd, returncode, fs, room, devices, partitions, backup_globals,
                 restore_globals, content_read, split_files>>

\* restore_image with the first pattern's result left in glob's order
FindSplitFilesUnsorted(matches1, matches2) ==
  IF Len(matches1) > 1 THEN matches1
  ELSE IF Len(matches2) > 1 THEN Sorted(matches2)
  ELSE <<>>

\* restore_image: split_files, from what glob returned for the two patterns
\* (the loop breaks, and asks glob no more, once a pattern gave more than one)
FindSplitFiles(matches1, matches2) ==
  IF Len(Sorted(matches1)) > 1 THEN Sorted(matches1)
  ELSE IF Len(Sorted(matches2)) > 1 THEN Sorted(matches2)
  ELSE <<>>

\* an error message that gives the hint whatever the file is
RestoreErrorMsgAlways(is_encrypted) ==
  <<"ERROR: Failed to restore partition image!", "Possible causes:", "- Wrong password", "- Corrupted file">>

\* restore_image: error_msg
RestoreErrorMsg(is_encrypted) ==
  <<"ERROR: Failed to restore partition image!">>
    \o (IF is_encrypted THEN <<"Possible causes:", "- Wrong password", "- Corrupted file">> ELSE <<>>)

restore_image ==
  /\ pc = "restore_image"
  /\ \E matches1 \in (IF IS_SPLIT THEN Orders(GlobSet(fs, RestorePatterns(RESTORE_FILE)[1])) ELSE { <<>> }) :
     \E matches2 \in (IF IS_SPLIT /\ Len(matches1) <= 1
                        THEN Orders(GlobSet(fs, RestorePatterns(RESTORE_FILE)[2])) ELSE { <<>> }) :
       LET found == IF IS_SPLIT THEN FindSplitFiles(matches1, matches2) ELSE <<>>
           input_cmd == IF IS_SPLIT THEN Cat(found) ELSE Cat(<<RESTORE_FILE>>)
           cmd == RestoreImageCmd(input_cmd, IS_ENCRYPTED, IS_COMPRESSED, RESTORE_PASSWORD,
                                  RESTORE_PARTITION)
           info == InfoBox(<<"Starting partition restore...", "This may take a long time.">>)
       IN
       /\ split_files' = found
       /\ IF IS_SPLIT /\ found = <<>>
            THEN /\ log' = Append(log, MsgBox(<<"ERROR: Could not find split files!">>, <<>>))
                 /\ SysExit(1)
                 /\ UNCHANGED <<full_cmd, executed, returncode>>
            ELSE /\ full_cmd' = cmd
                 /\ executed' = executed + 1
                 /\ \E succeeded \in BOOLEAN :
                      /\ returncode' = IF succeeded THEN "zero" ELSE "nonzero"
                      /\ IF succeeded
                           THEN /\ log' = log \o
                                     << info,
                                        MsgBox(<<"Partition restored successfully!", "Destination: ">>
                                                 \o (IF IS_SPLIT THEN <<"Joined split files">> ELSE <<>>)
                                                 \o (IF IS_COMPRESSED THEN <<"Decompressed file">> ELSE <<>>)
                                                 \o (IF IS_ENCRYPTED THEN <<"Decrypted file">> ELSE <<>>),
                                               <<RESTORE_PARTITION>>) >>
                                /\ SysExit(0)
                           ELSE /\ log' = log \o <<info, MsgBox(RestoreErrorMsg(IS_ENCRYPTED), <<>>)>>
                                /\ SysExit(1)
  /\ UNCHANGED <<run, fs, room, devices, partitions, backup_globals, restore_globals, content_read>>

\* ------------------------------------------------------- the next invocation

\* the program is started again: the module's globals are set afresh, the
\* disk is as the earlier invocations left it
NewRun ==
  /\ pc = "exit"
  /\ run < MaxRuns
  /\ run' = run + 1
  /\ pc' = "main"
  /\ exit_code' = 0
  /\ log' = <<>>
  /\ executed' = 0
  /\ full_cmd' = <<>>
  /\ returncode' = "none"
  /\ devices' = <<>>
  /\ partitions' = <<>>
  /\ DEVICE' = <<>>
  /\ PARTITION' = <<>>
  /\ OUTPUT_PATH' = <<>>
  /\ ENCRYPT' = FALSE
  /\ ENCRYPT_PASSWORD' = <<>>
  /\ COMPRESS' = FALSE
  /\ SPLIT' = FALSE
  /\ SPLIT_SIZE' = <<>>
  /\ RESTORE_FILE' = <<>>
  /\ RESTORE_DEVICE' = <<>>
  /\ RESTORE_PARTITION' = <<>>
  /\ IS_ENCRYPTED' = FALSE
  /\ IS_COMPRESSED' = FALSE
  /\ IS_SPLIT' = FALSE
  /\ RESTORE_PASSWORD' = <<>>
  /\ content_read' = FALSE
  /\ split_files' = <<>>
  /\ UNCHANGED <<fs, room>>

Next ==
  \/ main
  \/ select_operation
  \/ select_device
  \/ select_partition
  \/ select_output_path
  \/ select_encryption
  \/ select_compression
  \/ select_split
  \/ show_backup_summary
  \/ create_image
  \/ select_restore_file
  \/ detect_file_properties
  \/ ask_restore_password
  \/ select_restore_device
  \/ select_restore_partition
  \/ show_restore_summary
  \/ restore_image
  \/ NewRun

Spec == Init /\ [][Next]_vars

\* ------------------------------------------------------------- properties

Exes(cmd) == [i \in DOMAIN cmd |-> cmd[i].exe]

Last(s) == s[Len(s)]

\* create_image has built its command
BackupBuilt == full_cmd # <<>> /\ full_cmd[1].exe = "dd"

\* restore_image has built its command
RestoreBuilt == full_cmd # <<>> /\ full_cmd[1].exe = "cat"

\* C1: the backup command reads PARTITION with dd, then has gzip iff COMPRESS,
\* then openssl enc iff ENCRYPT, then split iff SPLIT, in this order and with
\* no other stage; without SPLIT its last stage, and no other, writes a file.
C1_BackupStageOrder ==
  BackupBuilt =>
    /\ Exes(full_cmd) =
         <<"dd">> \o (IF COMPRESS THEN <<"gzip">> ELSE <<>>)
                  \o (IF ENCRYPT THEN <<"openssl">> ELSE <<>>)
                  \o (IF SPLIT THEN <<"split">> ELSE <<>>)
    /\ full_cmd[1].ins = <<PARTITION>>
    /\ \A i \in DOMAIN full_cmd : full_cmd[i].exe = "openssl" => ~full_cmd[i].decrypt
    /\ \A i \in 1..(Len(full_cmd) - 1) : full_cmd[i].out = <<>>
    /\ Last(full_cmd).out # <<>>
    /\ (~SPLIT => StartsWith(Last(full_cmd).out, OUTPUT_PATH))

\* a backup with all three flags has been built
C1_Witness == BackupBuilt /\ COMPRESS /\ ENCRYPT /\ SPLIT /\ Len(full_cmd) = 4

\* the suffix the flags ask for
Suffix(compress, encrypt) ==
  IF compress /\ encrypt THEN GZ_ENC
  ELSE IF compress THEN GZ
  ELSE IF encrypt THEN ENC
  ELSE <<>>

\* C2: the backup command writes to OUTPUT_PATH followed by the suffix of
\* (COMPRESS, ENCRYPT), and with SPLIT hands split that name followed by one '.'.
C2_OutputName ==
  BackupBuilt =>
    Last(full_cmd).out =
      OUTPUT_PATH \o Suffix(COMPRESS, ENCRYPT) \o (IF SPLIT THEN DOT ELSE <<>>)

\* C3: the restore command is cat of the input (the parts when IS_SPLIT, else
\* the one file), then openssl -d iff IS_ENCRYPTED, then gunzip iff
\* IS_COMPRESSED, then dd onto RESTORE_PARTITION; no decryption follows a
\* decompression.
C3_RestoreStageOrder ==
  RestoreBuilt =>
    /\ Exes(full_cmd) =
         <<"cat">> \o (IF IS_ENCRYPTED THEN <<"openssl">> ELSE <<>>)
                   \o (IF IS_COMPRESSED THEN <<"gunzip">> ELSE <<>>)
                   \o <<"dd">>
    /\ \A i \in DOMAIN full_cmd : full_cmd[i].exe = "openssl" => full_cmd[i].decrypt
    /\ \A i, j \in DOMAIN full_cmd :
         full_cmd[i].exe = "gunzip" /\ full_cmd[j].exe = "openssl" => j < i
    /\ Last(full_cmd).out = RESTORE_PARTITION
    /\ \A i \in 1..(Len(full_cmd) - 1) : full_cmd[i].out = <<>>
    /\ IF IS_SPLIT
         THEN /\ Len(full_cmd[1].ins) > 1
              /\ \A k \in DOMAIN full_cmd[1].ins : full_cmd[1].ins[k] \in DOMAIN fs
         ELSE full_cmd[1].ins = <<RESTORE_FILE>>

\* a restore of a file that is split, encrypted and compressed has been built
C3_Witness == RestoreBuilt /\ IS_SPLIT /\ IS_ENCRYPTED /\ IS_COMPRESSED /\ Len(full_cmd) = 4

\* detect_file_properties has run on RESTORE_FILE and the run has not ended
Detected ==
  pc \in { "ask_restore_password", "select_restore_device", "select_restore_partition",
           "show_restore_summary", "restore_image" }

\* RESTORE_FILE is the one file an earlier, unsplit backup with compression
\* and encryption wrote
RestoresCompressedEncrypted ==
  /\ Detected
  /\ fs[RESTORE_FILE].by =
       [made |-> TRUE, compress |-> TRUE, encrypt |-> TRUE, split |-> FALSE, part |-> 0]

\* the files of RESTORE_FILE's directory, other than RESTORE_FILE, whose name
\* is stem followed by '.' and anything
Siblings(stem) ==
  { f \in DOMAIN fs :
      /\ f # RESTORE_FILE
      /\ DirName(f) = DirName(RESTORE_FILE)
      /\ StartsWith(BaseName(f), stem \o DOT) }

\* C4 as stated: detection on the file a compress+encrypt backup without split
\* wrote finds it encrypted, compressed and not split.
C4_RoundTrip ==
  RestoresCompressedEncrypted => IS_ENCRYPTED /\ IS_COMPRESSED /\ ~IS_SPLIT

\* C4 as amended: detection on that file finds it encrypted and compressed,
\* and finds it not split exactly when its directory holds no other file
\* named <output name>.gz.<anything>.
C4_RoundTripAlone ==
  RestoresCompressedEncrypted =>
    /\ IS_ENCRYPTED
    /\ IS_COMPRESSED
    /\ EndsWith(RESTORE_FILE, GZ_ENC)
    /\ IS_SPLIT = (Siblings(SubSeq(BaseName(RESTORE_FILE), 1, Len(BaseName(RESTORE_FILE)) - Len(ENC))) # {})

\* such a file, alone in its directory, has been inspected
C4_Witness ==
  /\ RestoresCompressedEncrypted
  /\ DOMAIN fs = { RESTORE_FILE }
  /\ IS_ENCRYPTED /\ IS_COMPRESSED /\ ~IS_SPLIT

\* C5: a suffix decides first ('.gz.enc' both, '.gz' compressed only, '.enc'
\* encrypted only) and then the file is not opened; without a suffix the file
\* is opened and its first bytes decide: 1F 8B compressed only, 'Salted__'
\* encrypted only, anything else or an unreadable file neither.
C5_SuffixThenContent ==
  Detected =>
    LET file == fs[RESTORE_FILE]
        bytes == file.content
        gzip == Len(bytes) >= 2 /\ bytes[1] = 31 /\ bytes[2] = 139
        salted == /\ Len(bytes) >= 8
                  /\ <<bytes[1], bytes[2], bytes[3], bytes[4], bytes[5], bytes[6], bytes[7], bytes[8]>>
                       = <<83, 97, 108, 116, 101, 100, 95, 95>>
    IN
    IF EndsWith(RESTORE_FILE, GZ_ENC) THEN IS_COMPRESSED /\ IS_ENCRYPTED /\ ~content_read
    ELSE IF EndsWith(RESTORE_FILE, GZ) THEN IS_COMPRESSED /\ ~IS_ENCRYPTED /\ ~content_read
    ELSE IF EndsWith(RESTORE_FILE, ENC) THEN ~IS_COMPRESSED /\ IS_ENCRYPTED /\ ~content_read
    ELSE /\ content_read
         /\ IF file.readable /\ gzip THEN IS_COMPRESSED /\ ~IS_ENCRYPTED
            ELSE IF file.readable /\ salted THEN ~IS_COMPRESSED /\ IS_ENCRYPTED
            ELSE ~IS_COMPRESSED /\ ~IS_ENCRYPTED

\* a file without a suffix that starts with 'Salted__' has been inspected
C5_Witness ==
  /\ Detected
  /\ ~EndsWith(RESTORE_FILE, GZ) /\ ~EndsWith(RESTORE_FILE, ENC)
  /\ StartsWith(fs[RESTORE_FILE].content, SaltedMagic)
  /\ content_read /\ IS_ENCRYPTED /\ ~IS_COMPRESSED

\* the files of RESTORE_FILE's directory whose name is stem followed by '.'
\* and anything
Matching(stem) ==
  { f \in DOMAIN fs :
      /\ DirName(f) = DirName(RESTORE_FILE)
      /\ StartsWith(BaseName(f), stem \o DOT) }

\* the matches of '<name>.*'
NameMatches == Matching(BaseName(RESTORE_FILE))

\* the matches of '<stem>.*', of '<name>.*' again when the name has no dot
StemMatches ==
  LET name == BaseName(RESTORE_FILE)
      dot == CHOOSE i \in DOMAIN name : name[i] = "." /\ \A j \in DOMAIN name : name[j] = "." => j <= i
  IN IF \E i \in DOMAIN name : name[i] = "." THEN Matching(SubSeq(name, 1, dot - 1))
     ELSE NameMatches

Ascending(s) == \A i \in 1..(Len(s) - 1) : StrLess(s[i], s[i + 1])

\* C6 as stated: with more than one match of the two patterns the file is
\* split, and the parts restore concatenates are all the matches, ascending.
C6_AllMatchesSorted ==
  /\ (Detected \/ RestoreBuilt) => (IS_SPLIT = (Cardinality(NameMatches \cup StemMatches) > 1))
  /\ (RestoreBuilt /\ IS_SPLIT) =>
       /\ Ascending(full_cmd[1].ins)
       /\ Range(full_cmd[1].ins) = NameMatches \cup StemMatches

\* C6 as amended: with more than one match of the two patterns the file is
\* split, and the parts restore concatenates are the matches of the first of
\* the two patterns that has more than one, ascending, whatever order the
\* directory listing has.
C6_FirstPatternSorted ==
  /\ (Detected \/ RestoreBuilt) => (IS_SPLIT = (Cardinality(NameMatches \cup StemMatches) > 1))
  /\ (RestoreBuilt /\ IS_SPLIT) =>
       /\ Ascending(full_cmd[1].ins)
       /\ Len(full_cmd[1].ins) = Cardinality(Range(full_cmd[1].ins))
       /\ Range(full_cmd[1].ins) =
            IF Cardinality(NameMatches) > 1 THEN NameMatches ELSE StemMatches

\* the parts o.aa, o.ab, o.ac are concatenated in this order
C6_Witness ==
  /\ RestoreBuilt
  /\ IS_SPLIT
  /\ full_cmd[1].ins =
       << <<"/", "t", "/", "o", ".", "a", "a">>, <<"/", "t", "/", "o", ".", "a", "b">>,
          <<"/", "t", "/", "o", ".", "a", "c">> >>

\* the run has ended with exit code 1 right after showing the message msg
EndedWithError(msg) ==
  /\ pc = "exit"
  /\ exit_code = 1
  /\ log # <<>>
  /\ Last(log).box = "msgbox"
  /\ Last(log).msg = msg

SizePrompt == <<"Enter maximum size for each part (e.g. 1G, 500M, 2048K):">>

\* C7: a size that is empty or does not begin with a digit ends the run with
\* 'Invalid size format!' and exit code 1 before a command is built; a size
\* that begins with a digit is kept unchanged in SPLIT_SIZE and is the size
\* given to split in the backup command.
C7_SplitSize ==
  \A i \in DOMAIN log :
    (log[i].box = "inputbox" /\ log[i].msg = SizePrompt /\ log[i].code = DIALOG_OK) =>
      IF log[i].value = <<>> \/ log[i].value[1] \notin Digits
        THEN /\ EndedWithError(<<"Invalid size format!">>)
             /\ Len(log) = i + 1
             /\ full_cmd = <<>>
             /\ executed = 0
        ELSE /\ SPLIT_SIZE = log[i].value
             /\ (pc = "exit" /\ exit_code = 1) => returncode = "nonzero"
             /\ BackupBuilt =>
                  /\ Last(full_cmd).exe = "split"
                  /\ Last(full_cmd).size = log[i].value

\* the size G100 has been turned down
C7_Witness ==
  /\ EndedWithError(<<"Invalid size format!">>)
  /\ log[Len(log) - 1].value = <<"G", "1", "0", "0">>
  /\ full_cmd = <<>>

\* the prompts the user can cancel
CancelPrompts ==
  { <<"Select operation:">>, <<"Select storage device:">>, <<"Select partition on :">>,
    <<"Enter destination path for partition image:">>, <<"Enter encryption password:">>,
    <<"Confirm encryption password:">>, SizePrompt, <<"Enter path to backup image file:">>,
    <<"Enter decryption password:">>, <<"Select destination device for restore:">>,
    <<"Select destination partition on :">>,
    <<"BACKUP OPERATION SUMMARY:", "Continue with backup operation?">>,
    <<"RESTORE OPERATION SUMMARY:", "WARNING: This will OVERWRITE all data on !",
      "Are you sure you want to continue?">> }

\* C8: after a cancel at any prompt of the workflow (the final summary
\* included) the run has ended with exit code 0 and no pipeline was executed.
C8_CancelExitsZero ==
  \A i \in DOMAIN log :
    (log[i].msg \in CancelPrompts /\ log[i].code = DIALOG_CANCEL) =>
      /\ pc = "exit"
      /\ exit_code = 0
      /\ executed = 0

\* the messages of the failures the program detects before it runs a pipeline
PreconditionFailures ==
  { <<"No storage devices found!">>, <<"No partitions found on device !">>,
    <<"Error: Partition  does not exist!">>, <<"Error: File  does not exist!">>,
    <<"Passwords do not match!">>, <<"Invalid size format!">> }

\* the messages of a pipeline that returned non-zero
PipelineFailures ==
  { <<"ERROR: Failed to create partition image!">>,
    <<"ERROR: Failed to restore partition image!">>,
    <<"ERROR: Failed to restore partition image!", "Possible causes:", "- Wrong password",
      "- Corrupted file">> }

\* C9, in every state: a failure message is the last box of the run, which has
\* ended with exit code 1, and before the execution step without a pipeline;
\* a missing restore file or partition node, two different passwords, an
\* invalid size and a non-zero return code each have ended the run that way;
\* no prompt has been shown twice.
C9_FailureState ==
  /\ \A i \in DOMAIN log :
       (log[i].box = "msgbox" /\ log[i].msg \in PreconditionFailures \cup PipelineFailures) =>
         /\ i = Len(log)
         /\ pc = "exit"
         /\ exit_code = 1
         /\ (log[i].msg \in PreconditionFailures => executed = 0 /\ full_cmd = <<>>)
  /\ (RESTORE_FILE # <<>> /\ RESTORE_FILE \notin DOMAIN fs) =>
       EndedWithError(<<"Error: File  does not exist!">>) /\ executed = 0
  /\ (PARTITION # <<>> /\ PARTITION \notin DevNodes) =>
       EndedWithError(<<"Error: Partition  does not exist!">>) /\ executed = 0
  /\ (RESTORE_PARTITION # <<>> /\ RESTORE_PARTITION \notin DevNodes) =>
       EndedWithError(<<"Error: Partition  does not exist!">>) /\ executed = 0
  /\ \A i \in 1..(Len(log) - 1) :
       ( /\ log[i].msg = <<"Enter encryption password:">>
         /\ log[i + 1].msg = <<"Confirm encryption password:">>
         /\ log[i + 1].code = DIALOG_OK
         /\ log[i].value # log[i + 1].value ) =>
           EndedWithError(<<"Passwords do not match!">>) /\ Len(log) = i + 2 /\ executed = 0
  /\ \A i \in DOMAIN log :
       ( /\ log[i].msg = SizePrompt
         /\ log[i].code = DIALOG_OK
         /\ (log[i].value = <<>> \/ log[i].value[1] \notin Digits) ) =>
           EndedWithError(<<"Invalid size format!">>) /\ Len(log) = i + 1 /\ executed = 0
  /\ returncode = "nonzero" =>
       /\ pc = "exit"
       /\ exit_code = 1
       /\ executed = 1
       /\ Last(log).box = "msgbox"
       /\ Last(log).msg \in PipelineFailures
  /\ \A i, j \in DOMAIN log : log[i].msg = log[j].msg => i = j

\* C9, in every step: a device or partition listing that comes back empty ends
\* the run with its message and exit code 1, and a run that has ended shows
\* nothing more and executes nothing.
C9_FailureStep ==
  /\ (pc \in { "select_device", "select_restore_device" } /\ pc' # pc /\ devices' = <<>>) =>
       EndedWithError(<<"No storage devices found!">>)' /\ executed' = 0
  /\ (pc \in { "select_partition", "select_restore_partition" } /\ pc' # pc /\ partitions' = <<>>) =>
       EndedWithError(<<"No partitions found on device !">>)' /\ executed' = 0
  /\ (pc = "exit" /\ run' = run) => UNCHANGED <<log, executed, exit_code, full_cmd>>

\* C9: each detected failure ends the run at once with a message and exit
\* code 1; no later prompt, no retry, and no pipeline when the failure comes
\* before the execution step.
C9_FailuresAbort == [](C9_FailureState) /\ [][C9_FailureStep]_vars

\* two different passwords have ended the run
C9_Witness ==
  /\ EndedWithError(<<"Passwords do not match!">>)
  /\ log[Len(log) - 1].code = DIALOG_OK
  /\ log[Len(log) - 1].value # log[Len(log) - 2].value

\* C10: a restore pipeline that returns non-zero ends the run with exit code 1
\* and the failure message; the message names 'Wrong password' iff
\* IS_ENCRYPTED, and names 'Corrupted file' whenever it names 'Wrong password'.
C10_RestoreFailureHint ==
  (RestoreBuilt /\ returncode = "nonzero") =>
    /\ pc = "exit"
    /\ exit_code = 1
    /\ Last(log).box = "msgbox"
    /\ Last(log).msg[1] = "ERROR: Failed to restore partition image!"
    /\ ("- Wrong password" \in Range(Last(log).msg)) = IS_ENCRYPTED
    /\ ("- Corrupted file" \in Range(Last(log).msg)) = IS_ENCRYPTED

\* the restore of an encrypted file has failed
C10_Witness == RestoreBuilt /\ returncode = "nonzero" /\ IS_ENCRYPTED

\* the pattern <digits><K|M|G>: one or more digits, then one of K, M, G
SizePattern(size) ==
  /\ Len(size) >= 2
  /\ \A i \in 1..(Len(size) - 1) : size[i] \in Digits
  /\ size[Len(size)] \in {"K", "M", "G"}

\* C11: when the backup command has been built with SPLIT true, SPLIT_SIZE
\* matches <digits><K|M|G>, whatever string select_split let through.
C11_SizePattern == (BackupBuilt /\ SPLIT) => SizePattern(SPLIT_SIZE)

BackupSummary == <<"BACKUP OPERATION SUMMARY:", "Continue with backup operation?">>
RestoreSummary ==
  <<"RESTORE OPERATION SUMMARY:", "WARNING: This will OVERWRITE all data on !",
    "Are you sure you want to continue?">>

\* the boxes that ask the user for something
IsPrompt(e) == e.box \in {"menu", "inputbox", "passwordbox", "yesno"}

\* the prompts of the workflow a summary closes, given the choices made
WorkflowPrompts(summary) ==
  IF summary = BackupSummary
    THEN { <<"Select operation:">>, <<"Select storage device:">>, <<"Select partition on :">>,
           <<"Enter destination path for partition image:">>, <<"Encrypt the image file?">>,
           <<"Compress the image file?">>, <<"Split file into smaller parts?">> }
         \cup (IF ENCRYPT THEN { <<"Enter encryption password:">>, <<"Confirm encryption password:">> }
               ELSE {})
         \cup (IF SPLIT THEN { SizePrompt } ELSE {})
    ELSE { <<"Select operation:">>, <<"Enter path to backup image file:">>,
           <<"Select destination device for restore:">>, <<"Select destination partition on :">> }
         \cup (IF IS_ENCRYPTED THEN { <<"Enter decryption password:">> } ELSE {})

\* the summary at place i of the log was accepted after every prompt of its
\* workflow was answered, and no prompt came after it
AcceptedAfterAllPrompts(i) ==
  /\ log[i].box = "yesno"
  /\ log[i].msg \in { BackupSummary, RestoreSummary }
  /\ log[i].code = DIALOG_OK
  /\ \A m \in WorkflowPrompts(log[i].msg) :
       \E j \in 1..(i - 1) : /\ log[j].msg = m
                             /\ (log[j].box # "yesno" => log[j].code = DIALOG_OK)
  /\ \A j \in 1..(i - 1) : IsPrompt(log[j]) => log[j].msg \in WorkflowPrompts(log[i].msg)
  /\ \A j \in (i + 1)..Len(log) : ~IsPrompt(log[j])

\* C12: a run executes the pipeline at most once, and only after every prompt
\* of the chosen workflow was answered and the final summary accepted; a
\* declined summary ends the run with the cancellation message and no pipeline.
C12_OncePipelineAfterSummary ==
  /\ executed <= 1
  /\ (executed = 1) = (full_cmd # <<>>)
  /\ executed = 1 =>
       /\ \E i \in DOMAIN log : AcceptedAfterAllPrompts(i)
       /\ BackupBuilt => \E i \in DOMAIN log : log[i].msg = BackupSummary
       /\ RestoreBuilt => \E i \in DOMAIN log : log[i].msg = RestoreSummary
  /\ pc \in { "create_image", "restore_image" } =>
       /\ executed = 0
       /\ AcceptedAfterAllPrompts(Len(log))
       /\ (pc = "create_image") = (Last(log).msg = BackupSummary)
  /\ \A i \in DOMAIN log :
       (log[i].msg \in { BackupSummary, RestoreSummary } /\ log[i].code # DIALOG_OK) =>
         /\ executed = 0
         /\ pc = "exit"
         /\ exit_code = 0
         /\ Len(log) = i + 1
         /\ Last(log).box = "msgbox"
         /\ Last(log).msg = IF log[i].msg = BackupSummary
                              THEN <<"Backup operation cancelled by user.">>
                              ELSE <<"Restore operation cancelled by user.">>

\* the restore of an encrypted file was executed after its summary was accepted
C12_Witness ==
  /\ executed = 1
  /\ RestoreBuilt
  /\ IS_ENCRYPTED
  /\ \E i \in DOMAIN log : log[i].msg = RestoreSummary /\ AcceptedAfterAllPrompts(i)

\* RESTORE_FILE is what one successful backup wrote into a directory that
\* holds nothing else: its single output file, or the first of at least two
\* parts
ProducedAlone ==
  /\ Detected
  /\ LET by == fs[RESTORE_FILE].by
         prefix == SubSeq(RESTORE_FILE, 1, Len(RESTORE_FILE) - 2)
     IN /\ by.made
        /\ \A f \in DOMAIN fs :
             /\ fs[f].by.made
             /\ fs[f].by.compress = by.compress
             /\ fs[f].by.encrypt = by.encrypt
             /\ fs[f].by.split = by.split
        /\ IF by.split
             THEN /\ by.part = 1
                  /\ \E n \in 2..5 : DOMAIN fs = { prefix \o SplitSuffix(k) : k \in 1..n }
             ELSE DOMAIN fs = { RESTORE_FILE }

\* C13: for each of the eight values of (COMPRESS, ENCRYPT, SPLIT), detection
\* on the file a backup wrote alone into its directory (the first part when
\* split) gives IS_COMPRESSED = COMPRESS, IS_ENCRYPTED = ENCRYPT and
\* IS_SPLIT = SPLIT.
C13_DetectionInvertsBackup ==
  ProducedAlone =>
    /\ IS_COMPRESSED = fs[RESTORE_FILE].by.compress
    /\ IS_ENCRYPTED = fs[RESTORE_FILE].by.encrypt
    /\ IS_SPLIT = fs[RESTORE_FILE].by.split

====
